---- MODULE Spec2Model ----
(***************************************************************************)
(* A model of cinder/volume/flows/common.py: the DynamicLogListener that   *)
(* turns taskflow task/flow transitions into log calls, and the two        *)
(* best-effort status helpers restore_source_status and error_out_volume.  *)
(*                                                                         *)
(* Python values that reach a '%s' conversion are tagged records           *)
(* [t |-> type name, s |-> payload]; a log message is the sequence of the  *)
(* pieces the '%' formatting concatenates, so that "the message contains   *)
(* X" is a statement about the rendered text.  A details mapping is a      *)
(* function whose DOMAIN is the set of keys present.                       *)
(***************************************************************************)
EXTENDS Integers, Sequences, FiniteSets, TLC

(* ------------------------------ bounds --------------------------------- *)

\* Events delivered to one listener in one behaviour.
MaxEvents == 2

\* Longest reason text handed to error_out_volume / _clean_reason.
MaxReasonLen == 133

\* Largest integer handed to error_out_volume as a (non-text) reason.
MaxIntReason == 12

(* ----------------------- constants of the program ---------------------- *)

\* logging.DEBUG / logging.WARNING / logging.ERROR as used by the module.
DEBUG == 10
WARNING == 30
ERROR == 40

REASON_LENGTH == 128

\* taskflow.states, the tags the receivers compare against.
SUCCESS == "SUCCESS"
FAILURE == "FAILURE"
RUNNING == "RUNNING"
REVERTING == "REVERTING"
REVERTED == "REVERTED"
RETRYING == "RETRYING"

States == {RUNNING, SUCCESS, FAILURE, REVERTING, REVERTED, RETRYING}

\* taskflow.listeners.base.FINISH_STATES
FINISH_STATES == {FAILURE, SUCCESS}

(* --------------------------- Python values ----------------------------- *)

None == [t |-> "NoneType", s |-> ""]
Str(x) == [t |-> "str", s |-> x]
Failure(x) == [t |-> "Failure", s |-> x]

\* isinstance(result, misc.Failure)
IsFailure(v) == v.t = "Failure"

\* What '%s' renders for a value: str(None) is 'None', a str is itself.
str(v) ==
    CASE v.t = "NoneType" -> "None"
      [] v.t = "str" -> v.s
      [] OTHER -> "Failure: " \o v.s

\* tuple(result.exc_info): (type, value, traceback) of the captured failure.
ExcInfoOf(v) == <<v.s, "value", "traceback">>

\* The exc_info slot of a log call that passes none.
NoExcInfo == <<>>

\* dict.get(key): the value, or None when the key is absent.
Get(d, key) == IF key \in DOMAIN d THEN d[key] ELSE None

(* ------------------------------ state ---------------------------------- *)

VARIABLES
    listener,      \* the DynamicLogListener instance: [_logger |-> name]
    loggerLevel,   \* the level the listener's logger is currently set to
    records,       \* the calls made on the listener's logger, in order
    events,        \* the notifications delivered so far, with the level then set
    volumes,       \* the store: volume id -> status
    call,          \* the helper call last made, with its arguments
    trace,         \* what that call did, in order: log lines and store calls
    raised,        \* the exception that call let escape, "none" if it returned
    reason,        \* the argument of _clean_reason
    cleaned,       \* its result
    pc             \* "idle", "clean" (before _clean_reason) or "done"

vars == <<listener, loggerLevel, records, events, volumes, call, trace, raised,
          reason, cleaned, pc>>

listenerVars == <<listener, loggerLevel, records, events>>
recoveryVars == <<volumes, call, trace, raised>>
reasonVars == <<reason, cleaned, pc>>

(* ----------------------------- the logger ------------------------------ *)

\* logger.isEnabledFor(level) of the listener's logger.
isEnabledFor(level) == level >= loggerLevel

\* One call on a logger: logger.log(level, msg, exc_info=...).
LogCall(logger, level, msg, exc_info) ==
    [logger |-> logger, level |-> level, msg |-> msg, exc_info |-> exc_info]

(* ------------------------- DynamicLogListener -------------------------- *)

\* __init__: the module's LOG unless a logger is given.
ListenerInit(logger) ==
    [_logger |-> IF logger = "None" THEN "LOG" ELSE logger]

\* "Flow '%(flow_name)s' (%(flow_uuid)s) transitioned into state '%(state)s'
\*  from state '%(old_state)s'" % {...}
FlowMessage(flow_name, flow_uuid, state, old_state) ==
    <<"Flow '", flow_name, "' (", flow_uuid, ") transitioned into state '",
      state, "' from state '", str(old_state), "'">>

\* "Task '%(task_name)s' (%(task_uuid)s) transitioned into state '%(state)s'"
TaskMessage(task_name, task_uuid, state) ==
    <<"Task '", task_name, "' (", task_uuid, ") transitioned into state '",
      state, "'">>

\* The same with " with result %(result)s" appended.
TaskResultMessage(task_name, task_uuid, state, result) ==
    <<"Task '", task_name, "' (", task_uuid, ") transitioned into state '",
      state, "'", " with result ", str(result)>>

\* A _flow_receiver that escalates FAILURE only.
FlowReceiverFailureOnly(self, state, details) ==
    LET level == IF state \in {FAILURE} THEN WARNING ELSE DEBUG
    IN  LogCall(self._logger, level,
                FlowMessage(details["flow_name"], details["flow_uuid"], state,
                            Get(details, "old_state")),
                NoExcInfo)

\* A _flow_receiver that falls back to the new state for a missing old_state.
FlowReceiverOldDefault(self, state, details) ==
    LET level == IF state \in {FAILURE, REVERTED} THEN WARNING ELSE DEBUG
    IN  LogCall(self._logger, level,
                FlowMessage(details["flow_name"], details["flow_uuid"], state,
                            IF "old_state" \in DOMAIN details
                            THEN details["old_state"] ELSE Str(state)),
                NoExcInfo)

\* DynamicLogListener._flow_receiver: the one logger call it makes.
_flow_receiver(self, state, details) ==
    LET level == IF state \in {FAILURE, REVERTED} THEN WARNING ELSE DEBUG
    IN  LogCall(self._logger, level,
                FlowMessage(details["flow_name"], details["flow_uuid"], state,
                            Get(details, "old_state")),
                NoExcInfo)

\* A _task_receiver whose last branch escalates REVERTING but not RETRYING.
TaskReceiverRetryQuiet(self, state, details) ==
    IF "result" \in DOMAIN details /\ state \in FINISH_STATES
    THEN LET result == Get(details, "result")
         IN  IF IsFailure(result)
             THEN LogCall(self._logger, WARNING,
                          TaskMessage(details["task_name"],
                                      details["task_uuid"], state),
                          ExcInfoOf(result))
             ELSE LET level == IF state = FAILURE THEN WARNING ELSE DEBUG
                  IN  IF isEnabledFor(DEBUG) \/ state = FAILURE
                      THEN LogCall(self._logger, level,
                                   TaskResultMessage(details["task_name"],
                                                     details["task_uuid"],
                                                     state, result),
                                   NoExcInfo)
                      ELSE LogCall(self._logger, level,
                                   TaskMessage(details["task_name"],
                                               details["task_uuid"], state),
                                   NoExcInfo)
    ELSE LET level == IF state \in {REVERTING} THEN WARNING ELSE DEBUG
         IN  LogCall(self._logger, level,
                     TaskMessage(details["task_name"], details["task_uuid"],
                                 state),
                     NoExcInfo)

\* A _task_receiver that shows the result only when DEBUG is enabled *and* the
\* state is FAILURE.
TaskReceiverAndDebug(self, state, details) ==
    IF "result" \in DOMAIN details /\ state \in FINISH_STATES
    THEN LET result == Get(details, "result")
         IN  IF IsFailure(result)
             THEN LogCall(self._logger, WARNING,
                          TaskMessage(details["task_name"],
                                      details["task_uuid"], state),
                          ExcInfoOf(result))
             ELSE LET level == IF state = FAILURE THEN WARNING ELSE DEBUG
                  IN  IF isEnabledFor(DEBUG) /\ state = FAILURE
                      THEN LogCall(self._logger, level,
                                   TaskResultMessage(details["task_name"],
                                                     details["task_uuid"],
                                                     state, result),
                                   NoExcInfo)
                      ELSE LogCall(self._logger, level,
                                   TaskMessage(details["task_name"],
                                               details["task_uuid"], state),
                                   NoExcInfo)
    ELSE LET level == IF state \in {REVERTING, RETRYING} THEN WARNING ELSE DEBUG
         IN  LogCall(self._logger, level,
                     TaskMessage(details["task_name"], details["task_uuid"],
                                 state),
                     NoExcInfo)

\* A _task_receiver that asks the logger once, at the first event, and reuses
\* the answer afterwards.
TaskReceiverCachedDebug(self, state, details) ==
    LET debugOn == IF events # <<>> THEN DEBUG >= events[1].loggerLevel
                   ELSE isEnabledFor(DEBUG)
    IN
    IF "result" \in DOMAIN details /\ state \in FINISH_STATES
    THEN LET result == Get(details, "result")
         IN  IF IsFailure(result)
             THEN LogCall(self._logger, WARNING,
                          TaskMessage(details["task_name"],
                                      details["task_uuid"], state),
                          ExcInfoOf(result))
             ELSE LET level == IF state = FAILURE THEN WARNING ELSE DEBUG
                  IN  IF debugOn \/ state = FAILURE
                      THEN LogCall(self._logger, level,
                                   TaskResultMessage(details["task_name"],
                                                     details["task_uuid"],
                                                     state, result),
                                   NoExcInfo)
                      ELSE LogCall(self._logger, level,
                                   TaskMessage(details["task_name"],
                                               details["task_uuid"], state),
                                   NoExcInfo)
    ELSE LET level == IF state \in {REVERTING, RETRYING} THEN WARNING ELSE DEBUG
         IN  LogCall(self._logger, level,
                     TaskMessage(details["task_name"], details["task_uuid"],
                                 state),
                     NoExcInfo)

\* DynamicLogListener._task_receiver: the one logger call it makes.
\* logger.warn(msg, exc_info=...) is a call at WARNING.
_task_receiver(self, state, details) ==
    IF "result" \in DOMAIN details /\ state \in FINISH_STATES
    THEN LET result == Get(details, "result")
         IN  IF IsFailure(result)
             THEN LogCall(self._logger, WARNING,
                          TaskMessage(details["task_name"],
                                      details["task_uuid"], state),
                          ExcInfoOf(result))
             ELSE LET level == IF state = FAILURE THEN WARNING ELSE DEBUG
                  IN  IF isEnabledFor(DEBUG) \/ state = FAILURE
                      THEN LogCall(self._logger, level,
                                   TaskResultMessage(details["task_name"],
                                                     details["task_uuid"],
                                                     state, result),
                                   NoExcInfo)
                      ELSE LogCall(self._logger, level,
                                   TaskMessage(details["task_name"],
                                               details["task_uuid"], state),
                                   NoExcInfo)
    ELSE LET level == IF state \in {REVERTING, RETRYING} THEN WARNING ELSE DEBUG
         IN  LogCall(self._logger, level,
                     TaskMessage(details["task_name"], details["task_uuid"],
                                 state),
                     NoExcInfo)

(* ---------------------- the engine's notifications --------------------- *)

FlowNames == {"volume_create_api"}
FlowUUIDs == {"f-uuid-1"}
TaskNames == {"ExtractVolumeRequestTask"}
TaskUUIDs == {"t-uuid-1"}

\* details of a flow notification: old_state is optional.
FlowDetails ==
    [flow_name : FlowNames, flow_uuid : FlowUUIDs]
    \cup [flow_name : FlowNames, flow_uuid : FlowUUIDs,
          old_state : {None, Str(RUNNING), Str(FAILURE)}]

\* details of a task notification: result is optional, and is a plain value
\* (None included) or a captured Failure.
TaskDetails ==
    [task_name : TaskNames, task_uuid : TaskUUIDs]
    \cup [task_name : TaskNames, task_uuid : TaskUUIDs,
          result : {None, Str("vol-7"), Failure("ValueError")}]

LoggerLevels == {DEBUG, WARNING}

Event(kind, state, details) ==
    [kind |-> kind, state |-> state, details |-> details,
     loggerLevel |-> loggerLevel]

\* The engine notifies a flow transition: the callback runs to completion.
FlowEvent ==
    /\ Len(events) < MaxEvents
    /\ \E state \in States, details \in FlowDetails :
          /\ records' = Append(records, _flow_receiver(listener, state, details))
          /\ events' = Append(events, Event("flow", state, details))
    /\ UNCHANGED <<listener, loggerLevel, recoveryVars, reasonVars>>

\* The engine notifies a task transition: the callback runs to completion.
TaskEvent ==
    /\ Len(events) < MaxEvents
    /\ \E state \in States, details \in TaskDetails :
          /\ records' = Append(records, _task_receiver(listener, state, details))
          /\ events' = Append(events, Event("task", state, details))
    /\ UNCHANGED <<listener, loggerLevel, recoveryVars, reasonVars>>

\* Somebody reconfigures the logger between two events.
SetLevel ==
    /\ \E l \in LoggerLevels \ {loggerLevel} : loggerLevel' = l
    /\ UNCHANGED <<listener, records, events, recoveryVars, reasonVars>>

(* ------------------------------ the store ------------------------------ *)

Contexts == {"ctx-admin", "ctx-user"}
VolumeIds == {"vol-1", "vol-2"}
Statuses == {"available", "in-use", "error"}

\* What db.volume_update may raise.  VolumeNotFound derives from
\* CinderException; DBError and KeyError do not.
Exceptions == {"CinderException", "VolumeNotFound", "DBError", "KeyError"}

\* except exception.CinderException: the class and its subclasses.
IsCinderException(e) == e \in {"CinderException", "VolumeNotFound"}

\* A store whose next volume_update raises `raises`, or succeeds on "none".
Stores == [raises : Exceptions \cup {"none"}]

\* What a helper call leaves behind: a log line, or a call on the store.
LogLine(level, fmt, args, exc) ==
    [kind |-> "log", level |-> level, fmt |-> fmt, args |-> args, exc |-> exc]

VolumeUpdate(context, volume_id, update) ==
    [kind |-> "volume_update", context |-> context, volume_id |-> volume_id,
     update |-> update]

\* What a helper call amounts to: its effects in order, and what it raised.
Outcome(effects, exc) == [trace |-> effects, raised |-> exc]

\* try: LOG.debug(...); db.volume_update(...)
\* except CinderException: LOG.exception(...)
\* LOG.exception logs at ERROR with the exception being handled attached.
TryUpdate(db, debugLine, update, failFmt, failArgs) ==
    IF db.raises = "none"
    THEN Outcome(<<debugLine, update>>, "none")
    ELSE IF IsCinderException(db.raises)
         THEN Outcome(<<debugLine, update,
                        LogLine(ERROR, failFmt, failArgs, db.raises)>>, "none")
         ELSE Outcome(<<debugLine, update>>, db.raises)

(* ------------------------- restore_source_status ----------------------- *)

NoSpec == [present |-> FALSE, d |-> [k \in {} |-> ""]]
SpecOf(d) == [present |-> TRUE, d |-> d]

\* `not volume_spec`: None and the empty dict are both falsy.
Falsy(volume_spec) == ~volume_spec.present \/ DOMAIN volume_spec.d = {}

\* volume_spec.get(key), as a Python value.
SpecGet(volume_spec, key) ==
    IF key \in DOMAIN volume_spec.d THEN Str(volume_spec.d[key]) ELSE None

\* A restore_source_status that tests only for a missing spec.
RestoreAnyType(context, db, volume_spec) ==
    IF Falsy(volume_spec)
    THEN Outcome(<<>>, "none")
    ELSE LET source_volid == SpecGet(volume_spec, "source_volid").s
             source_status == SpecGet(volume_spec, "source_volstatus").s
         IN  TryUpdate(db,
                 LogLine(DEBUG, "Restoring source %(source_volid)s status to %(status)s",
                         [status |-> source_status, source_volid |-> source_volid],
                         "none"),
                 VolumeUpdate(context, source_volid, [status |-> source_status]),
                 "Failed setting source volume %(source_volid)s back to its initial %(source_status)s status",
                 [source_status |-> source_status, source_volid |-> source_volid])

restore_source_status(context, db, volume_spec) ==
    IF Falsy(volume_spec) \/ SpecGet(volume_spec, "type") # Str("source_vol")
    THEN Outcome(<<>>, "none")
    ELSE LET source_volid == volume_spec.d["source_volid"]
             source_status == volume_spec.d["source_volstatus"]
         IN  TryUpdate(db,
                 LogLine(DEBUG, "Restoring source %(source_volid)s status to %(status)s",
                         [status |-> source_status, source_volid |-> source_volid],
                         "none"),
                 VolumeUpdate(context, source_volid, [status |-> source_status]),
                 "Failed setting source volume %(source_volid)s back to its initial %(source_status)s status",
                 [source_status |-> source_status, source_volid |-> source_volid])

(* ---------------------------- error_out_volume ------------------------- *)

\* A reason is None, a text (a sequence of characters) or an integer.
NoReason == [t |-> "NoneType", s |-> <<>>, n |-> 0]
TextReason(chars) == [t |-> "unicode", s |-> chars, n |-> 0]
IntReason(n) == [t |-> "int", s |-> <<>>, n |-> n]

Digit(d) == <<"0", "1", "2", "3", "4", "5", "6", "7", "8", "9">>[d + 1]

RECURSIVE Decimal(_)
Decimal(n) == IF n < 10 THEN <<Digit(n)>>
              ELSE Append(Decimal(n \div 10), Digit(n % 10))

\* six.text_type(reason): a text is itself, an integer its decimal digits.
text_type(r) == IF r.t = "int" THEN Decimal(r.n) ELSE r.s

Ellipsis == <<".", ".", ".">>

\* A _clean_reason that cuts at `<` instead of `<=`.
CleanReasonStrict(r) ==
    IF r.t = "NoneType" THEN <<"?", "?", "?">>
    ELSE LET text == text_type(r)
         IN  IF Len(text) < REASON_LENGTH THEN text
             ELSE SubSeq(text, 1, REASON_LENGTH) \o Ellipsis

\* error_out_volume._clean_reason
_clean_reason(r) ==
    IF r.t = "NoneType" THEN <<"?", "?", "?">>
    ELSE LET text == text_type(r)
         IN  IF Len(text) <= REASON_LENGTH THEN text
             ELSE SubSeq(text, 1, REASON_LENGTH) \o Ellipsis

\* An error_out_volume that swallows whatever the store raises.
ErrorOutCatchAll(context, db, volume_id, r) ==
    LET update == [status |-> "error"]
        clean == _clean_reason(r)
        debugLine == LogLine(DEBUG,
                         "Updating volume: %(volume_id)s with %(update)s due to: %(reason)s",
                         [volume_id |-> volume_id, reason |-> clean, update |-> update],
                         "none")
    IN  IF db.raises = "none"
        THEN Outcome(<<debugLine, VolumeUpdate(context, volume_id, update)>>, "none")
        ELSE Outcome(<<debugLine, VolumeUpdate(context, volume_id, update),
                       LogLine(ERROR, "Failed updating volume %(volume_id)s with %(update)s",
                               [volume_id |-> volume_id, update |-> update],
                               db.raises)>>, "none")

\* An error_out_volume with the commented-out lines enabled: the reason goes
\* into the update as 'details'.
ErrorOutWithDetails(context, db, volume_id, r) ==
    LET clean == _clean_reason(r)
        update == [status |-> "error", details |-> clean]
    IN  TryUpdate(db,
            LogLine(DEBUG,
                    "Updating volume: %(volume_id)s with %(update)s due to: %(reason)s",
                    [volume_id |-> volume_id, reason |-> clean, update |-> update],
                    "none"),
            VolumeUpdate(context, volume_id, update),
            "Failed updating volume %(volume_id)s with %(update)s",
            [volume_id |-> volume_id, update |-> update])

\* An error_out_volume that logs its debug line after the store call, so that
\* a raising store leaves no debug line behind.
ErrorOutLogAfter(context, db, volume_id, r) ==
    LET update == [status |-> "error"]
        clean == _clean_reason(r)
        debugLine == LogLine(DEBUG,
                         "Updating volume: %(volume_id)s with %(update)s due to: %(reason)s",
                         [volume_id |-> volume_id, reason |-> clean, update |-> update],
                         "none")
        failLine == LogLine(ERROR, "Failed updating volume %(volume_id)s with %(update)s",
                            [volume_id |-> volume_id, update |-> update], db.raises)
    IN  IF db.raises = "none"
        THEN Outcome(<<VolumeUpdate(context, volume_id, update), debugLine>>, "none")
        ELSE IF IsCinderException(db.raises)
             THEN Outcome(<<VolumeUpdate(context, volume_id, update), failLine>>, "none")
             ELSE Outcome(<<VolumeUpdate(context, volume_id, update)>>, db.raises)

error_out_volume(context, db, volume_id, r) ==
    LET update == [status |-> "error"]
        clean == _clean_reason(r)
    IN  TryUpdate(db,
            LogLine(DEBUG,
                    "Updating volume: %(volume_id)s with %(update)s due to: %(reason)s",
                    [volume_id |-> volume_id, reason |-> clean, update |-> update],
                    "none"),
            VolumeUpdate(context, volume_id, update),
            "Failed updating volume %(volume_id)s with %(update)s",
            [volume_id |-> volume_id, update |-> update])

(* --------------------------- the helper calls -------------------------- *)

\* A text of length n: 'x' everywhere, 'y' at position p (nowhere if p = 0).
MarkedText(n, p) == [i \in 1..n |-> IF i = p THEN "y" ELSE "x"]

MarkPositions == {0, 1, REASON_LENGTH, REASON_LENGTH + 1}

\* The reasons _clean_reason is tried on.
Reasons ==
    {NoReason}
    \cup {TextReason(MarkedText(n, p)) : n \in 0..MaxReasonLen, p \in MarkPositions}
    \cup {IntReason(n) : n \in 0..MaxIntReason}

\* The reasons the callers of error_out_volume are tried with.
CallReasons ==
    {NoReason, IntReason(MaxIntReason)}
    \cup {TextReason(MarkedText(n, 1)) :
            n \in {0, 5, REASON_LENGTH, REASON_LENGTH + 1, MaxReasonLen}}

\* The volume specs restore_source_status is tried with: None, {}, a spec
\* without a type, and specs of each type.
VolumeSpecs ==
    {NoSpec, SpecOf([k \in {} |-> ""]), SpecOf([snapshot_id |-> "snap-1"])}
    \cup {SpecOf(d) : d \in [type : {"source_vol", "snap", "raw"},
                             source_volid : VolumeIds,
                             source_volstatus : Statuses]}

NoCall ==
    [op |-> "none", context |-> "", db |-> [raises |-> "none"], volume_id |-> "",
     reason |-> NoReason, volume_spec |-> NoSpec]

\* The store after a helper call: a volume_update that did not raise took effect.
StoreAfter(vols, db, effects) ==
    LET updates == {k \in DOMAIN effects : effects[k].kind = "volume_update"}
    IN  IF db.raises = "none" /\ updates # {}
        THEN LET u == effects[CHOOSE k \in updates : TRUE]
             IN  [v \in DOMAIN vols |->
                    IF v = u.volume_id THEN u.update.status ELSE vols[v]]
        ELSE vols

\* A failing flow calls error_out_volume(context, db, volume_id, reason).
ErrorOutVolume ==
    /\ \E context \in Contexts, db \in Stores, volume_id \in VolumeIds,
          r \in CallReasons :
          LET out == error_out_volume(context, db, volume_id, r)
          IN  /\ call' = [op |-> "error_out_volume", context |-> context,
                          db |-> db, volume_id |-> volume_id, reason |-> r,
                          volume_spec |-> NoSpec]
              /\ trace' = out.trace
              /\ raised' = out.raised
              /\ volumes' = StoreAfter(volumes, db, out.trace)
    /\ UNCHANGED <<listenerVars, reasonVars>>

\* A failing flow calls restore_source_status(context, db, volume_spec).
RestoreSourceStatus ==
    /\ \E context \in Contexts, db \in Stores, volume_spec \in VolumeSpecs :
          LET out == restore_source_status(context, db, volume_spec)
          IN  /\ call' = [op |-> "restore_source_status", context |-> context,
                          db |-> db, volume_id |-> "", reason |-> NoReason,
                          volume_spec |-> volume_spec]
              /\ trace' = out.trace
              /\ raised' = out.raised
              /\ volumes' = StoreAfter(volumes, db, out.trace)
    /\ UNCHANGED <<listenerVars, reasonVars>>

\* _clean_reason applied to the chosen reason.
CleanReason ==
    /\ pc = "clean"
    /\ cleaned' = _clean_reason(reason)
    /\ pc' = "done"
    /\ UNCHANGED <<reason, listenerVars, recoveryVars>>

(* --------------------------- specifications ---------------------------- *)

ListenerIdle ==
    /\ listener = ListenerInit("None")
    /\ loggerLevel = WARNING
    /\ records = <<>>
    /\ events = <<>>

RecoveryIdle ==
    /\ volumes = [v \in VolumeIds |-> "available"]
    /\ call = NoCall
    /\ trace = <<>>
    /\ raised = "none"

ReasonIdle ==
    /\ reason = NoReason
    /\ cleaned = <<>>
    /\ pc = "idle"

\* A listener freshly attached, with the default or a given logger.
Init ==
    /\ \E logger \in {"None", "custom"} : listener = ListenerInit(logger)
    /\ loggerLevel \in LoggerLevels
    /\ records = <<>>
    /\ events = <<>>
    /\ RecoveryIdle
    /\ ReasonIdle

Next == FlowEvent \/ TaskEvent \/ SetLevel

Spec == Init /\ [][Next]_vars

\* The helpers, called on a store in any state.
RecoveryInit ==
    /\ volumes \in [VolumeIds -> Statuses]
    /\ call = NoCall
    /\ trace = <<>>
    /\ raised = "none"
    /\ ListenerIdle
    /\ ReasonIdle

RecoveryNext == ErrorOutVolume \/ RestoreSourceStatus

RecoverySpec == RecoveryInit /\ [][RecoveryNext]_vars

\* _clean_reason on each reason.
ReasonInit ==
    /\ reason \in Reasons
    /\ cleaned = <<>>
    /\ pc = "clean"
    /\ ListenerIdle
    /\ RecoveryIdle

ReasonNext == CleanReason

ReasonSpec == ReasonInit /\ [][ReasonNext]_vars

(* ------------------------------ the claims ----------------------------- *)

\* The i-th notification and the logger call it led to.
TaskIndices == {i \in 1..Len(events) : i <= Len(records) /\ events[i].kind = "task"}
FlowIndices == {i \in 1..Len(events) : i <= Len(records) /\ events[i].kind = "flow"}

HasResult(e) == "result" \in DOMAIN e.details
FinishWithResult(e) == HasResult(e) /\ e.state \in FINISH_STATES
DebugEnabledAt(e) == e.loggerLevel <= DEBUG

\* The text of a task message that carries only name, uuid and state.
IdentityOnly(e) ==
    <<"Task '", e.details.task_name, "' (", e.details.task_uuid,
      ") transitioned into state '", e.state, "'">>

\* C1: the severity of every task record follows the three-branch policy: with
\* a result and a finish state, WARNING for a Failure and otherwise WARNING
\* exactly for FAILURE; in every other case WARNING exactly for REVERTING and
\* RETRYING; DEBUG otherwise; whatever the logger's level.
C1_TaskSeverityPolicy ==
    /\ Len(records) = Len(events)
    /\ \A i \in TaskIndices :
          LET e == events[i]
              expected ==
                  IF FinishWithResult(e)
                  THEN IF IsFailure(e.details.result) THEN WARNING
                       ELSE IF e.state = FAILURE THEN WARNING ELSE DEBUG
                  ELSE IF e.state \in {REVERTING, RETRYING} THEN WARNING ELSE DEBUG
          IN  records[i].level = expected

\* A RETRYING task without a result was logged at WARNING while the logger
\* had DEBUG enabled, and a FAILURE with a plain result at WARNING without.
C1_Witness ==
    /\ Len(events) = 2 /\ Len(records) = 2
    /\ events[1].kind = "task" /\ events[1].state = RETRYING
    /\ ~HasResult(events[1]) /\ DebugEnabledAt(events[1])
    /\ records[1].level = WARNING
    /\ events[2].kind = "task" /\ events[2].state = FAILURE
    /\ HasResult(events[2]) /\ ~IsFailure(events[2].details.result)
    /\ ~DebugEnabledAt(events[2])
    /\ records[2].level = WARNING

\* C2: a task record shows the result value exactly when a plain result came
\* with a finish state and (DEBUG is enabled or the state is FAILURE); it has
\* the failure's exc_info attached exactly when a Failure came with a finish
\* state, and then the text carries no result; otherwise the text carries only
\* name, uuid and state.
C2_TaskRecordContent ==
    \A i \in TaskIndices :
        LET e == events[i]
            r == records[i]
            shown == /\ FinishWithResult(e)
                     /\ ~IsFailure(e.details.result)
                     /\ (DebugEnabledAt(e) \/ e.state = FAILURE)
            attached == FinishWithResult(e) /\ IsFailure(e.details.result)
            resultInText == /\ Len(r.msg) = 9
                            /\ SubSeq(r.msg, 1, 7) = IdentityOnly(e)
                            /\ r.msg[8] = " with result "
                            /\ HasResult(e)
                            /\ r.msg[9] = str(e.details.result)
        IN  /\ resultInText <=> shown
            /\ (r.exc_info # NoExcInfo) <=> attached
            /\ attached => r.exc_info = ExcInfoOf(e.details.result)
            /\ ~shown => r.msg = IdentityOnly(e)

\* A SUCCESS with a plain result, DEBUG disabled: the text leaves the result out.
C2_Witness ==
    \E i \in TaskIndices :
        /\ events[i].state = SUCCESS
        /\ HasResult(events[i]) /\ events[i].details.result = Str("vol-7")
        /\ ~DebugEnabledAt(events[i])
        /\ records[i].msg = IdentityOnly(events[i])
        /\ records[i].exc_info = NoExcInfo

\* C3: every flow notification leads to one record, at WARNING exactly when
\* the new state is FAILURE or REVERTED and at DEBUG otherwise, whatever the
\* old state and the logger's level.
C3_FlowSeverity ==
    /\ Len(records) = Len(events)
    /\ \A i \in FlowIndices :
          records[i].level =
              IF events[i].state \in {FAILURE, REVERTED} THEN WARNING ELSE DEBUG

\* A REVERTED flow without old_state logged at WARNING with DEBUG disabled,
\* and a RUNNING flow coming from FAILURE logged at DEBUG.
C3_Witness ==
    /\ Len(events) = 2 /\ Len(records) = 2
    /\ events[1].kind = "flow" /\ events[1].state = REVERTED
    /\ "old_state" \notin DOMAIN events[1].details
    /\ ~DebugEnabledAt(events[1])
    /\ records[1].level = WARNING
    /\ events[2].kind = "flow" /\ events[2].state = RUNNING
    /\ "old_state" \in DOMAIN events[2].details
    /\ events[2].details.old_state = Str(FAILURE)
    /\ records[2].level = DEBUG

\* The old-state position of a flow message holds `marker` when the
\* notification has no old_state, and the old state's text when it has one.
FlowMessageWithMarker(marker) ==
    \A i \in FlowIndices :
        LET e == events[i]
            m == records[i].msg
        IN  /\ Len(m) = 9
            /\ m[2] = e.details.flow_name
            /\ m[4] = e.details.flow_uuid
            /\ m[6] = e.state
            /\ m[8] = IF "old_state" \in DOMAIN e.details
                      THEN str(e.details.old_state)
                      ELSE marker

\* C4 as stated: a flow message includes name, uuid, new state and old state,
\* with "unknown" in the old-state position when there is no old_state.
C4_UnknownMarker == FlowMessageWithMarker("unknown")

\* C4 amended: a flow message includes name, uuid, new state and old state,
\* with the text "None" in the old-state position when there is no old_state.
C4_NoneMarker == FlowMessageWithMarker("None")

\* A flow notification without old_state, its message ending in 'None'.
C4_Witness ==
    \E i \in FlowIndices :
        /\ "old_state" \notin DOMAIN events[i].details
        /\ records[i].msg[8] = "None"

\* What a record is, as far as severity and content go: its level, whether
\* the text goes on after the state, whether exc_info is attached.
Shape(r) == <<r.level, Len(r.msg) > 7, r.exc_info # NoExcInfo>>

\* The shape the record of a notification must have given the logger's level.
ShapeFor(e, level) ==
    IF e.kind = "flow"
    THEN <<IF e.state \in {FAILURE, REVERTED} THEN WARNING ELSE DEBUG, TRUE, FALSE>>
    ELSE IF FinishWithResult(e)
         THEN IF IsFailure(e.details.result)
              THEN <<WARNING, FALSE, TRUE>>
              ELSE <<IF e.state = FAILURE THEN WARNING ELSE DEBUG,
                     level <= DEBUG \/ e.state = FAILURE, FALSE>>
         ELSE <<IF e.state \in {REVERTING, RETRYING} THEN WARNING ELSE DEBUG,
                FALSE, FALSE>>

\* C9: every notification adds exactly one record to the log and leaves the
\* earlier records, the listener and the logger's level alone; the record's
\* severity and content are decided by the notification and by the level the
\* logger has when the notification is dispatched, not by earlier ones.
C9_OneRecordPerEvent ==
    [][events' # events =>
          /\ Len(events') = Len(events) + 1
          /\ Len(records') = Len(records) + 1
          /\ SubSeq(records', 1, Len(records)) = records
          /\ listener' = listener
          /\ loggerLevel' = loggerLevel
          /\ records'[Len(records')].logger = listener._logger
          /\ Shape(records'[Len(records')])
                = ShapeFor(events'[Len(events')], loggerLevel)]_vars

\* The same SUCCESS with the same result delivered twice, the level changed
\* in between: shown the first time, left out the second.
C9_Witness ==
    /\ Len(events) = 2 /\ Len(records) = 2
    /\ events[1].kind = "task" /\ events[1].state = SUCCESS
    /\ HasResult(events[1])
    /\ events[2] = [events[1] EXCEPT !.loggerLevel = WARNING]
    /\ events[1].loggerLevel = DEBUG
    /\ Len(records[1].msg) = 9
    /\ Len(records[2].msg) = 7

\* The store calls among the effects of the last helper call.
UpdatesIn(t) == {k \in DOMAIN t : t[k].kind = "volume_update"}

\* C5: when volume_update raises a CinderException the helper returns
\* normally; when it raises anything else, that exception reaches the caller.
C5_DomainErrorsSwallowedOnly ==
    (call.op # "none" /\ UpdatesIn(trace) # {}) =>
        /\ call.db.raises \in {"CinderException", "VolumeNotFound"}
              => raised = "none"
        /\ call.db.raises \in {"DBError", "KeyError"}
              => raised = call.db.raises
        /\ call.db.raises = "none" => raised = "none"

\* Both helpers have let a DBError through, error_out_volume here.
C5_Witness ==
    /\ call.op = "error_out_volume"
    /\ call.db.raises = "DBError"
    /\ UpdatesIn(trace) # {}
    /\ raised = "DBError"

\* C6: error_out_volume calls volume_update exactly once, with its context,
\* its volume id and {'status': 'error'}, whatever the reason and whatever the
\* store does.
C6_ErrorOutOneUpdate ==
    call.op = "error_out_volume" =>
        /\ Cardinality(UpdatesIn(trace)) = 1
        /\ \A k \in UpdatesIn(trace) :
              /\ trace[k].context = call.context
              /\ trace[k].volume_id = call.volume_id
              /\ DOMAIN trace[k].update = {"status"}
              /\ trace[k].update.status = "error"

\* error_out_volume with a reason longer than 128 characters on a store that
\* raised: one update, status only.
C6_Witness ==
    /\ call.op = "error_out_volume"
    /\ call.reason.t = "unicode" /\ Len(call.reason.s) > 128
    /\ call.db.raises = "VolumeNotFound"
    /\ Cardinality(UpdatesIn(trace)) = 1

\* The spec names a source volume: present, with type 'source_vol'.
Applicable(volume_spec) ==
    /\ volume_spec.present
    /\ "type" \in DOMAIN volume_spec.d
    /\ volume_spec.d.type = "source_vol"

\* C7: restore_source_status does nothing at all (no store call, no log line)
\* unless the spec is present with type 'source_vol'; then it calls
\* volume_update exactly once, with its context, the spec's source_volid and
\* {'status': source_volstatus}.
C7_RestoreOnlySourceVol ==
    call.op = "restore_source_status" =>
        IF Applicable(call.volume_spec)
        THEN /\ Cardinality(UpdatesIn(trace)) = 1
             /\ \A k \in UpdatesIn(trace) :
                   /\ trace[k].context = call.context
                   /\ trace[k].volume_id = call.volume_spec.d.source_volid
                   /\ DOMAIN trace[k].update = {"status"}
                   /\ trace[k].update.status = call.volume_spec.d.source_volstatus
        ELSE trace = <<>> /\ raised = "none"

\* restore_source_status with a 'snap' spec that names a source volume: nothing.
C7_Witness ==
    /\ call.op = "restore_source_status"
    /\ call.volume_spec.present
    /\ "type" \in DOMAIN call.volume_spec.d
    /\ call.volume_spec.d.type = "snap"
    /\ trace = <<>>

\* The effects of a helper call that reached the store: a DEBUG line, then
\* the store call, then, exactly when the store raised a CinderException, one
\* more line at `level` carrying that exception.
LogSequence(level) ==
    (call.op # "none" /\ trace # <<>>) =>
        /\ Len(trace) \in {2, 3}
        /\ trace[1].kind = "log" /\ trace[1].level = DEBUG
        /\ trace[2].kind = "volume_update"
        /\ Len(trace) = 3 <=> IsCinderException(call.db.raises)
        /\ Len(trace) = 3 =>
              /\ trace[3].kind = "log"
              /\ trace[3].level = level
              /\ trace[3].exc = call.db.raises

\* C8 as stated: the line after a CinderException is at warning level.
C8_WarningAfterDomainError == LogSequence(WARNING)

\* C8 amended: the line after a CinderException is at error level
\* (LOG.exception), everything else as stated.
C8_ErrorAfterDomainError == LogSequence(ERROR)

\* error_out_volume on a store that raised VolumeNotFound: three effects, the
\* last one a line at ERROR.
C8_Witness ==
    /\ call.op = "error_out_volume"
    /\ call.db.raises = "VolumeNotFound"
    /\ Len(trace) = 3
    /\ trace[3].kind = "log" /\ trace[3].level = ERROR

\* C10: _clean_reason gives '???' for None, a text of at most 128 characters
\* unchanged, and for a longer text its first 128 characters followed by
\* '...', 131 in all; no result is longer than 131 characters.
C10_CleanReasonBounded ==
    pc = "done" =>
        /\ reason.t = "NoneType" => cleaned = <<"?", "?", "?">>
        /\ (reason.t = "unicode" /\ Len(reason.s) <= 128) => cleaned = reason.s
        /\ (reason.t = "unicode" /\ Len(reason.s) > 128) =>
              /\ Len(cleaned) = 131
              /\ \A i \in 1..128 : cleaned[i] = reason.s[i]
              /\ \A i \in 129..131 : cleaned[i] = "."
        /\ Len(cleaned) <= 131

\* A text of 129 characters whose last one is the 'y': cut to 128 and '...'.
C10_Witness ==
    /\ pc = "done"
    /\ reason.t = "unicode" /\ Len(reason.s) = 129 /\ reason.s[129] = "y"
    /\ Len(cleaned) = 131
    /\ cleaned[129] = "."

====
